---- MODULE Spec2Model ----
(***************************************************************************)
(* OneTalk communication routing: the phone registry                       *)
(* (src/onetalk_phone_manager.py, class OneTalkPhoneManager), the          *)
(* user/department directory and rule engine                               *)
(* (src/onetalk_multi_user_system.py, class OneTalkSystem) and the         *)
(* dispatcher entry point (src/onetalk_repo_command_interface.py,          *)
(* OneTalkRepoCommander.handle_incoming_call).                             *)
(*                                                                         *)
(* The SQLite tables are sets of rows.  A text value is a sequence of      *)
(* symbols of a small alphabet, so that Python's substring test `in` and   *)
(* upper()/lower() are computed, not assumed.  SQL NULL / Python None is   *)
(* NULL for scalar columns and the empty text for phone-number columns.    *)
(* ORDER BY ... LIMIT 1 returns any row that is first under the ORDER BY   *)
(* keys: rows that tie on every key come back in an order SQL leaves       *)
(* unspecified.                                                            *)
(***************************************************************************)
EXTENDS Integers, Sequences, FiniteSets, TLC

VARIABLES phone_numbers, call_routing, phone_stats, today,
          users, departments, routing_rules, communications,
          active_sessions, calls, last

vars == <<phone_numbers, call_routing, phone_stats, today,
          users, departments, routing_rules, communications,
          active_sessions, calls, last>>

phoneVars == <<phone_numbers, call_routing, phone_stats>>
talkVars == <<users, departments, routing_rules, communications,
              active_sessions>>

----------------------------------------------------------------------------
(* Bounds of the model *)

MaxPhones == 2
MaxRoutes == 2
MaxDay == 2
MaxCap == 2
MaxDur == 2
MaxUsers == 3
MaxRules == 2
MaxComms == 2
MaxTotal == 4
MaxHistory == 4

----------------------------------------------------------------------------
(* Values *)

NULL == "NULL"
NoPhone == <<>>

\* concurrent invocations (threads or processes sharing the database file);
\* calls[p] is the position and the local variables of invocation p
Procs == {"p1", "p2"}
NoCalls == [p \in Procs |-> [pc |-> "idle"]]

\* text values: phone numbers written as sequences of symbols
NumSales == <<"SALES">>
NumCreditSales == <<"CREDIT", "SALES">>
NumCaller == <<"n">>
NumLower == <<"credit">>
VoicemailNumber == <<"VOICE", "MAIL">>

RegNumbers == {NumSales, NumCreditSales, NumLower}
ToNumbers == {NumSales, NumCreditSales, NumCaller}
FromNumbers == {NumCaller, NumLower}

PhoneDepartments == {"sales", "credit_analysis", NULL}
Priorities == {5, 10}
Capacities == 1..MaxCap
Durations == 1..MaxDur

\* str.upper() / str.lower() on one symbol, then on a text
UpperSym(c) ==
    CASE c = "credit" -> "CREDIT"
      [] c = "sales" -> "SALES"
      [] OTHER -> c

LowerSym(c) ==
    CASE c = "CREDIT" -> "credit"
      [] c = "SALES" -> "sales"
      [] c = "VOICE" -> "voice"
      [] c = "MAIL" -> "mail"
      [] OTHER -> c

Upper(s) == [i \in 1..Len(s) |-> UpperSym(s[i])]
Lower(s) == [i \in 1..Len(s) |-> LowerSym(s[i])]

\* Python `pat in s` on str: pat occurs in s as a contiguous run
Contains(pat, s) ==
    \E i \in 0..(Len(s) - Len(pat)) :
        \A j \in 1..Len(pat) : s[i + j] = pat[j]

Max0(n) == IF n < 0 THEN 0 ELSE n

----------------------------------------------------------------------------
(* OneTalkPhoneManager *)

PhoneRow(n, d, u, t, p, m) ==
    [phone_number |-> n, department_id |-> d, user_id |-> u,
     status |-> "available", type |-> t, priority |-> p,
     max_concurrent_calls |-> m, current_calls |-> 0]

StatsRow(n, day) ==
    [phone_number |-> n, date |-> day,
     total_calls |-> 0, total_sms |-> 0, total_duration |-> 0]

\* INSERT OR IGNORE INTO phone_stats (id, phone_number, date): the row is
\* added unless a row with that (phone_number, date) exists
InsertOrIgnoreStats(stats, n, day) ==
    IF \E s \in stats : s.phone_number = n /\ s.date = day
    THEN stats
    ELSE stats \cup {StatsRow(n, day)}

update_phone_stats(stats, n, day, new_registration) ==
    IF new_registration THEN InsertOrIgnoreStats(stats, n, day) ELSE stats

\* the table without its UNIQUE(phone_number) constraint
UniqueViolation_none(rows, n) == FALSE

\* UNIQUE(phone_number): the INSERT raises sqlite3.IntegrityError
UniqueViolation(rows, n) == \E r \in rows : r.phone_number = n

register_phone_number(n, d, u, t, p, m) ==
    /\ Cardinality(phone_numbers) < MaxPhones \/ UniqueViolation(phone_numbers, n)
    /\ IF UniqueViolation(phone_numbers, n)
       THEN /\ UNCHANGED <<phone_numbers, phone_stats>>
            /\ last' = [op |-> "register_phone_number", number |-> n,
                        ret |-> "already registered"]
       ELSE /\ phone_numbers' = phone_numbers \cup {PhoneRow(n, d, u, t, p, m)}
            /\ phone_stats' = update_phone_stats(phone_stats, n, today, TRUE)
            /\ last' = [op |-> "register_phone_number", number |-> n,
                        ret |-> "registered"]
    /\ UNCHANGED <<call_routing, today, calls, talkVars>>

\* the lowest priority first
BeforeAvailable_ascending(a, b) ==
    \/ a.priority < b.priority
    \/ a.priority = b.priority /\ a.current_calls < b.current_calls

\* ORDER BY priority DESC, current_calls ASC
BeforeAvailable(a, b) ==
    \/ a.priority > b.priority
    \/ a.priority = b.priority /\ a.current_calls < b.current_calls

\* LIMIT 1 after that ORDER BY: the rows no row is strictly before
FirstAvailable(rows) ==
    {r \in rows : ~ \E q \in rows : BeforeAvailable(q, r)}

DepartmentAvailable(rows, department_id, priority_min) ==
    {r \in rows : /\ r.department_id = department_id
                  /\ r.status = "available"
                  /\ r.current_calls < r.max_concurrent_calls
                  /\ r.priority >= priority_min}

\* a fallback over the phones of every department
GeneralAvailable_anyDepartment(rows, priority_min) ==
    {r \in rows : /\ r.status = "available"
                  /\ r.current_calls < r.max_concurrent_calls
                  /\ r.priority >= priority_min}

GeneralAvailable(rows, priority_min) ==
    {r \in rows : /\ r.department_id \in {NULL, "general"}
                  /\ r.status = "available"
                  /\ r.current_calls < r.max_concurrent_calls
                  /\ r.priority >= priority_min}

\* the set of values get_available_phone can return
get_available_phone(rows, department_id, priority_min) ==
    LET dept == IF department_id # NULL
                THEN DepartmentAvailable(rows, department_id, priority_min)
                ELSE {}
        gen == GeneralAvailable(rows, priority_min)
    IN  IF dept # {}
        THEN {r.phone_number : r \in FirstAvailable(dept)}
        ELSE IF gen # {}
             THEN {r.phone_number : r \in FirstAvailable(gen)}
             ELSE {NoPhone}

determine_target_department(rows, to_number, department_hint) ==
    IF department_hint # NULL THEN {department_hint}
    ELSE LET own == {r \in rows : r.phone_number = to_number
                                  /\ r.department_id # NULL}
         IN  IF own # {} THEN {r.department_id : r \in own}
             ELSE IF Contains(<<"SALES">>, Upper(to_number)) THEN {"sales"}
             ELSE IF Contains(<<"CREDIT">>, Upper(to_number)) THEN {"credit_analysis"}
             ELSE IF Contains(<<"TRANSPORT">>, Upper(to_number)) THEN {"vehicle_transport"}
             ELSE IF Contains(<<"SUPPORT">>, Upper(to_number)) THEN {"customer_service"}
             ELSE {"general"}

\* ORDER BY (current_calls * 1.0 / max_concurrent_calls) ASC, compared by
\* cross-multiplication (max_concurrent_calls > 0 for every row the model
\* registers)
LoadBefore(a, b) ==
    a.current_calls * b.max_concurrent_calls
        < b.current_calls * a.max_concurrent_calls

\* ORDER BY priority DESC, (current_calls * 1.0 / max_concurrent_calls) ASC
BeforeCross(a, b) ==
    \/ a.priority > b.priority
    \/ a.priority = b.priority /\ LoadBefore(a, b)

FirstByLoad(rows) == {r \in rows : ~ \E q \in rows : LoadBefore(q, r)}

FirstCross(rows) == {r \in rows : ~ \E q \in rows : BeforeCross(q, r)}

get_voicemail_number == VoicemailNumber

\* the set of <<phone, reason>> pairs handle_overflow_routing can return
handle_overflow_routing(rows, department) ==
    LET same == {r \in rows : r.department_id = department
                              /\ r.status = "available"}
        any == {r \in rows : r.status = "available"}
    IN  IF same # {}
        THEN {<<r.phone_number, "overflow_same_department">> :
                  r \in FirstByLoad(same)}
        ELSE IF any # {}
             THEN {<<r.phone_number, "overflow_cross_department">> :
                       r \in FirstCross(any)}
             ELSE {<<get_voicemail_number, "overflow_voicemail">>}

\* UPDATE phone_numbers SET current_calls = current_calls + 1 WHERE ...
IncrementCalls(rows, n) ==
    {IF r.phone_number = n
     THEN [r EXCEPT !.current_calls = r.current_calls + 1]
     ELSE r : r \in rows}

\* INSERT OR IGNORE the (phone, today) row, then UPDATE its counter
IncrementStats(stats, n, day, usage_type) ==
    {IF s.phone_number = n /\ s.date = day
     THEN IF usage_type = "call"
          THEN [s EXCEPT !.total_calls = s.total_calls + 1]
          ELSE [s EXCEPT !.total_sms = s.total_sms + 1]
     ELSE s : s \in InsertOrIgnoreStats(stats, n, day)}

\* the routing record committed before the usage update (no lock held)
SecondConnectionCanWrite_committed(uncommitted_write_held) == TRUE

\* SQLite admits one writer: while one connection holds an uncommitted
\* write (the INSERT of route_incoming_call, committed only after
\* increment_phone_usage returns), the UPDATE of a second connection waits
\* for the busy timeout and raises sqlite3.OperationalError
\* ("database is locked").
SecondConnectionCanWrite(uncommitted_write_held) == ~ uncommitted_write_held

RouteRow(id, from_number, to_number, routed, department, reason) ==
    [id |-> id, from_number |-> from_number, to_number |-> to_number,
     routed_to_number |-> routed, department |-> department,
     routing_reason |-> reason, call_duration |-> NULL, status |-> "active"]

NextRouteId == Cardinality(call_routing) + 1

route_incoming_call(from_number, to_number, department_hint) ==
    /\ Cardinality(call_routing) < MaxRoutes
    /\ \E target \in determine_target_department(phone_numbers, to_number, department_hint) :
       \E avail \in get_available_phone(phone_numbers, target, 1) :
       \E ov \in (IF avail = NoPhone
                  THEN handle_overflow_routing(phone_numbers, target)
                  ELSE {<<avail, "normal_routing">>}) :
          LET routed == ov[1]
              reason == ov[2]
              \* the INSERT INTO call_routing has run on conn, not committed
              uncommitted == TRUE
          IN  IF SecondConnectionCanWrite(uncommitted)
              THEN /\ phone_numbers' = IncrementCalls(phone_numbers, routed)
                   /\ phone_stats' = IncrementStats(phone_stats, routed, today, "call")
                   /\ call_routing' = call_routing \cup
                          {RouteRow(NextRouteId, from_number, to_number,
                                    routed, target, reason)}
                   /\ last' = [op |-> "route_incoming_call", raised |-> FALSE,
                               to_number |-> to_number,
                               route_id |-> NextRouteId, routed_to |-> routed,
                               department |-> target, routing_reason |-> reason]
              ELSE \* increment_phone_usage raises; conn is closed without
                   \* commit and its INSERT is rolled back
                   /\ UNCHANGED <<phone_numbers, phone_stats, call_routing>>
                   /\ last' = [op |-> "route_incoming_call", raised |-> TRUE,
                               to_number |-> to_number,
                               route_id |-> NextRouteId, routed_to |-> routed,
                               department |-> target, routing_reason |-> reason]
    /\ UNCHANGED <<today, calls, talkVars>>

\* route_incoming_call as two steps of an invocation p.  RouteCheck is the
\* read part: determine_target_department, get_available_phone and, on
\* None, handle_overflow_routing; the chosen line and the table it was
\* chosen from stay in the invocation's local variables.
RouteCheck(p, from_number, to_number, department_hint) ==
    /\ calls[p].pc = "idle"
    /\ \E target \in determine_target_department(phone_numbers, to_number, department_hint) :
       \E avail \in get_available_phone(phone_numbers, target, 1) :
       \E ov \in (IF avail = NoPhone
                  THEN handle_overflow_routing(phone_numbers, target)
                  ELSE {<<avail, "normal_routing">>}) :
          calls' = [calls EXCEPT ![p] =
                      [pc |-> "routed", op |-> "route_incoming_call",
                       from_number |-> from_number, to_number |-> to_number,
                       department |-> target, routed_to |-> ov[1],
                       routing_reason |-> ov[2], seen |-> phone_numbers]]
    /\ last' = [op |-> "route_check", proc |-> p]
    /\ UNCHANGED <<phoneVars, today, talkVars>>

\* RouteWrite is the write part: INSERT INTO call_routing on the
\* invocation's connection, increment_phone_usage on a second connection,
\* conn.commit().  The invocation's own uncommitted INSERT blocks its usage
\* update whatever the other invocations do.
RouteWrite(p) ==
    /\ calls[p].pc = "routed"
    /\ Cardinality(call_routing) < MaxRoutes
    /\ LET c == calls[p]
           uncommitted == TRUE
       IN  IF SecondConnectionCanWrite(uncommitted)
           THEN /\ phone_numbers' = IncrementCalls(phone_numbers, c.routed_to)
                /\ phone_stats' = IncrementStats(phone_stats, c.routed_to,
                                                 today, "call")
                /\ call_routing' = call_routing \cup
                       {RouteRow(NextRouteId, c.from_number, c.to_number,
                                 c.routed_to, c.department, c.routing_reason)}
                /\ calls' = [calls EXCEPT ![p].pc = "returned"]
           ELSE /\ UNCHANGED <<phone_numbers, phone_stats, call_routing>>
                /\ calls' = [calls EXCEPT ![p].pc = "raised"]
    /\ last' = [op |-> "route_write", proc |-> p]
    /\ UNCHANGED <<today, talkVars>>

\* the decrement without MAX(0, ...)
DecrementClamped_unclamped(c) == c - 1

\* SET current_calls = MAX(0, current_calls - 1)
DecrementClamped(c) == Max0(c - 1)

\* bound of the model on the accumulated total_duration
WithinTotal(duration_seconds) ==
    \A s \in phone_stats : s.total_duration + duration_seconds <= MaxTotal

\* a duration update that counts a route once: only while it is active
AccumulateDuration_activeOnly(total_duration, duration_seconds, route_status) ==
    IF route_status = "active"
    THEN total_duration + duration_seconds
    ELSE total_duration

\* SET total_duration = total_duration + ?: the route's status is not
\* consulted
AccumulateDuration(total_duration, duration_seconds, route_status) ==
    total_duration + duration_seconds

\* a lookup that falls back to the other routes when the id is unknown
RouteFound_orAnyRoute(routes, route_id) ==
    IF \E r \in routes : r.id = route_id
    THEN {r \in routes : r.id = route_id}
    ELSE routes

\* SELECT routed_to_number FROM call_routing WHERE id = ?
RouteFound(routes, route_id) == {r \in routes : r.id = route_id}

\* the statements of end_call on the phone manager's tables
EndCallStore(route_id, duration_seconds) ==
    LET found == RouteFound(call_routing, route_id)
    IN  IF found # {}
        THEN LET route == CHOOSE r \in found : TRUE
                 routed_phone == route.routed_to_number
             IN  /\ call_routing' =
                      {IF r.id = route_id
                       THEN [r EXCEPT !.call_duration = duration_seconds,
                                      !.status = "completed"]
                       ELSE r : r \in call_routing}
                 /\ phone_numbers' =
                      {IF r.phone_number = routed_phone
                       THEN [r EXCEPT !.current_calls =
                                          DecrementClamped(r.current_calls)]
                       ELSE r : r \in phone_numbers}
                 /\ phone_stats' =
                      {IF s.phone_number = routed_phone /\ s.date = today
                       THEN [s EXCEPT !.total_duration =
                                          AccumulateDuration(s.total_duration,
                                              duration_seconds, route.status)]
                       ELSE s : s \in phone_stats}
                 /\ last' = [op |-> "end_call", route_id |-> route_id,
                             found |-> TRUE, routed_to |-> routed_phone,
                             status_before |-> route.status,
                             duration_before |-> route.call_duration,
                             before |-> phone_numbers,
                             duration |-> duration_seconds,
                             raised |-> FALSE]
        ELSE /\ UNCHANGED <<phone_numbers, call_routing, phone_stats>>
             /\ last' = [op |-> "end_call", route_id |-> route_id,
                         found |-> FALSE, routed_to |-> NoPhone,
                         status_before |-> NULL,
                         duration_before |-> NULL,
                         before |-> phone_numbers,
                         duration |-> duration_seconds,
                         raised |-> FALSE]

\* an end_call that also frees the users busy on an active call from the
\* ended route's caller
end_call_freeing_user(route_id, duration_seconds) ==
    /\ WithinTotal(duration_seconds)
    /\ EndCallStore(route_id, duration_seconds)
    /\ users' =
         {IF /\ u.status = "busy"
             /\ \E r \in call_routing, c \in communications :
                   /\ r.id = route_id
                   /\ c.from_number = r.from_number
                   /\ c.type = "call" /\ c.status = "active"
                   /\ c.user_id = u.id
          THEN [u EXCEPT !.status = "available"]
          ELSE u : u \in users}
    /\ UNCHANGED <<today, calls, departments, routing_rules, communications,
                   active_sessions>>

end_call(route_id, duration_seconds) ==
    /\ WithinTotal(duration_seconds)
    /\ EndCallStore(route_id, duration_seconds)
    /\ UNCHANGED <<today, calls, talkVars>>

----------------------------------------------------------------------------
(* OneTalkSystem *)

\* SQLite BINARY collation (byte order) on the text values that the model
\* sorts: user names and roles
Collation == <<"Alice", "Bob", "Carol", "lead", "member">>

CollationIndex(x) == CHOOSE i \in 1..Len(Collation) : Collation[i] = x

StrLess(a, b) == CollationIndex(a) < CollationIndex(b)

UserRow(user_id, name, department, phone_number, role) ==
    [id |-> user_id, name |-> name, department |-> department,
     phone_number |-> phone_number, role |-> role, status |-> "available"]

DepartmentRow(dept_id, lead_user_id, phones) ==
    [id |-> dept_id, lead_user_id |-> lead_user_id, phone_numbers |-> phones]

\* INSERT OR REPLACE INTO departments: the row with that id is replaced
create_department(depts, dept_id, lead_user_id, phones) ==
    {d \in depts : d.id # dept_id}
        \cup {DepartmentRow(dept_id, lead_user_id, phones)}

update_department_membership(depts, department) ==
    IF \E d \in depts : d.id = department
    THEN depts
    ELSE create_department(depts, department, NULL, {})

\* an upsert that keeps the status of the row it replaces
InsertOrReplaceUser_keepStatus(us, row) ==
    {u \in us : u.id # row.id}
        \cup {IF \E u \in us : u.id = row.id
              THEN [row EXCEPT !.status =
                                   (CHOOSE u \in us : u.id = row.id).status]
              ELSE row}

\* INSERT OR REPLACE INTO users (id, name, department, phone_number, role):
\* a row with that primary key is deleted first, and the new row takes the
\* column default for status
InsertOrReplaceUser(us, row) == {u \in us : u.id # row.id} \cup {row}

add_user(user_id, name, department, phone_number, role) ==
    /\ Cardinality(users) < MaxUsers \/ \E u \in users : u.id = user_id
    /\ users' = InsertOrReplaceUser(users,
                    UserRow(user_id, name, department, phone_number, role))
    /\ departments' = update_department_membership(departments, department)
    /\ last' = [op |-> "add_user", user_id |-> user_id, name |-> name,
                department |-> department, phone_number |-> phone_number,
                role |-> role,
                status_before |->
                    IF \E u \in users : u.id = user_id
                    THEN (CHOOSE u \in users : u.id = user_id).status
                    ELSE NULL]
    /\ UNCHANGED <<phoneVars, today, calls, routing_rules, communications,
                   active_sessions>>

\* UPDATE users SET status = ? WHERE id = ?
SetUserStatus(us, user_id, status) ==
    {IF u.id = user_id THEN [u EXCEPT !.status = status] ELSE u : u \in us}

update_user_status(user_id, status) ==
    /\ users' = SetUserStatus(users, user_id, status)
    /\ last' = [op |-> "update_user_status", user_id |-> user_id]
    /\ UNCHANGED <<phoneVars, today, calls, departments, routing_rules,
                   communications, active_sessions>>

\* the preferred user looked up without the department condition
PreferredAvailable_anyDepartment(us, department, preferred_user) ==
    \E u \in us : u.id = preferred_user /\ u.status = "available"

\* WHERE id = ? AND department = ? AND status = 'available'
PreferredAvailable(us, department, preferred_user) ==
    \E u \in us : /\ u.id = preferred_user
                  /\ u.department = department
                  /\ u.status = "available"

\* the fallback query without the status condition
AvailableInDepartment_anyStatus(us, department) ==
    {u \in us : u.department = department}

\* WHERE department = ? AND status = 'available'
AvailableInDepartment(us, department) ==
    {u \in us : u.department = department /\ u.status = "available"}

\* ORDER BY role DESC, name ASC
BeforeUser(a, b) ==
    \/ StrLess(b.role, a.role)
    \/ a.role = b.role /\ StrLess(a.name, b.name)

\* LIMIT 1 after that ORDER BY: the rows no row is strictly before
FirstUsers(rows) == {r \in rows : ~ \E q \in rows : BeforeUser(q, r)}

\* the set of values find_available_user can return
find_available_user(us, department, preferred_user) ==
    IF preferred_user # NULL /\ PreferredAvailable(us, department, preferred_user)
    THEN {preferred_user}
    ELSE LET cand == AvailableInDepartment(us, department)
         IN  IF cand # {}
             THEN {u.id : u \in FirstUsers(cand)}
             ELSE {NULL}

RuleRow(id, condition_type, condition_value, target_department, target_user, priority) ==
    [id |-> id, priority |-> priority, condition_type |-> condition_type,
     condition_value |-> condition_value,
     target_department |-> target_department, target_user |-> target_user,
     is_active |-> TRUE]

add_routing_rule(condition_type, condition_value, target_department, target_user, priority) ==
    /\ Cardinality(routing_rules) < MaxRules
    /\ routing_rules' = routing_rules \cup
           {RuleRow(Cardinality(routing_rules) + 1, condition_type,
                    condition_value, target_department, target_user, priority)}
    /\ last' = [op |-> "add_routing_rule"]
    /\ UNCHANGED <<phoneVars, today, calls, users, departments, communications,
                   active_sessions>>

check_department_condition(condition_value, from_number) ==
    Contains(Lower(condition_value), Lower(from_number))

RuleMatches(rule, from_number, to_number) ==
    CASE rule.condition_type = "phone_pattern" ->
             \/ Contains(rule.condition_value, from_number)
             \/ Contains(rule.condition_value, to_number)
      [] rule.condition_type = "time_based" -> FALSE
      [] rule.condition_type = "department" ->
             check_department_condition(rule.condition_value, from_number)
      [] OTHER -> FALSE

\* the rules in insertion order (no ORDER BY)
BeforeRule_insertion(a, b) == a.id < b.id

\* ORDER BY priority ASC
BeforeRule(a, b) == a.priority < b.priority

\* the orders in which the SELECT ... ORDER BY priority ASC can return
\* the rows
RuleOrderings(rows) ==
    {f \in [1..Cardinality(rows) -> rows] :
        /\ \A i, j \in 1..Cardinality(rows) : i # j => f[i] # f[j]
        /\ \A i, j \in 1..Cardinality(rows) : i < j => ~ BeforeRule(f[j], f[i])}

\* the for loop over the fetched rules: the first rule that matches returns
FirstMatch(rules, from_number, to_number) ==
    LET hits == {i \in 1..Len(rules) : RuleMatches(rules[i], from_number, to_number)}
    IN  IF hits = {}
        THEN <<NULL, NULL>>
        ELSE LET k == CHOOSE i \in hits : \A j \in hits : i <= j
             IN  <<rules[k].target_department, rules[k].target_user>>

\* the set of <<department, user>> pairs apply_routing_rules can return
apply_routing_rules(rules, from_number, to_number, message_type) ==
    {FirstMatch(f, from_number, to_number) :
        f \in RuleOrderings({r \in rules : r.is_active})}

\* SELECT department_id, user_id, COUNT(*) ... WHERE from_number = ? OR
\* to_number = ? GROUP BY department_id, user_id
\* ORDER BY interaction_count DESC, c.timestamp DESC LIMIT 1.
\* c.timestamp is a bare column of an aggregate query: SQLite takes it from
\* some row of the group.
HistoryRows(comms, phone_number) ==
    {c \in comms : c.from_number = phone_number \/ c.to_number = phone_number}

HistoryGroup(comms, phone_number, g) ==
    {c \in HistoryRows(comms, phone_number) :
        c.department_id = g[1] /\ c.user_id = g[2]}

HistoryKeys(comms, phone_number) ==
    {<<c.department_id, c.user_id>> : c \in HistoryRows(comms, phone_number)}

\* g can be returned first: no group has more interactions, and for every
\* group with as many there are rows whose timestamps put g first
CanComeFirst(comms, phone_number, g) ==
    \A h \in HistoryKeys(comms, phone_number) :
        LET cg == Cardinality(HistoryGroup(comms, phone_number, g))
            ch == Cardinality(HistoryGroup(comms, phone_number, h))
        IN  \/ h = g
            \/ ch < cg
            \/ /\ ch = cg
               /\ \E x \in HistoryGroup(comms, phone_number, g) :
                  \E y \in HistoryGroup(comms, phone_number, h) :
                      x.timestamp >= y.timestamp

\* the set of <<department, user>> pairs find_existing_customer can return;
\* {} when it returns None
find_existing_customer(comms, phone_number) ==
    {g \in HistoryKeys(comms, phone_number) : CanComeFirst(comms, phone_number, g)}

HasWord(words, content_lower) ==
    \E w \in words : Contains(<<w>>, content_lower)

\* the keyword scan with the sales terms tested first
KeywordDepartment_salesFirst(content) ==
    LET content_lower == Lower(content)
    IN  IF HasWord({"sales", "buy", "purchase", "deal"}, content_lower)
        THEN "sales"
        ELSE IF HasWord({"credit", "loan", "financing", "approval"}, content_lower)
        THEN "credit_analysis"
        ELSE IF HasWord({"transport", "vehicle", "shipping", "delivery"}, content_lower)
        THEN "vehicle_transport"
        ELSE "customer_service"

KeywordDepartment(content) ==
    LET content_lower == Lower(content)
    IN  IF HasWord({"credit", "loan", "financing", "approval"}, content_lower)
        THEN "credit_analysis"
        ELSE IF HasWord({"transport", "vehicle", "shipping", "delivery"}, content_lower)
        THEN "vehicle_transport"
        ELSE IF HasWord({"sales", "buy", "purchase", "deal"}, content_lower)
        THEN "sales"
        ELSE "customer_service"

\* the set of <<department, user>> pairs default_classification can return
default_classification(comms, from_number, to_number, content) ==
    LET existing == find_existing_customer(comms, from_number)
    IN  IF existing # {}
        THEN existing
        ELSE {<<KeywordDepartment(content), NULL>>}

CommRow(id, from_number, to_number, user_id, dept_id, msg_type, content) ==
    [id |-> id, timestamp |-> id, from_number |-> from_number,
     to_number |-> to_number, user_id |-> user_id, department_id |-> dept_id,
     type |-> msg_type, content |-> content, status |-> "active",
     duration |-> NULL]

\* uuid4 identifiers and utcnow timestamps: fresh and increasing
NextCommId == Cardinality(communications) + 1

\* a record written only when a user was assigned
create_communication_record_assignedOnly(comms, id, from_number, to_number, user_id, dept_id, msg_type, content) ==
    IF user_id = NULL THEN comms
    ELSE comms \cup {CommRow(id, from_number, to_number, user_id, dept_id,
                             msg_type, content)}

create_communication_record(comms, id, from_number, to_number, user_id, dept_id, msg_type, content) ==
    comms \cup {CommRow(id, from_number, to_number, user_id, dept_id,
                        msg_type, content)}

\* a route_communication that marks the user busy for every type of event
route_communication_anyType(us, user_id, msg_type) ==
    SetUserStatus(us, user_id, "busy")

\* users after route_communication: busy on a call; the webhook post and the
\* log file append write nothing to the store
route_communication(us, user_id, msg_type) ==
    IF msg_type = "call" THEN SetUserStatus(us, user_id, "busy") ELSE us

\* positions of classify_incoming_communication, named as the states of
\* the inbound event: entered; department resolved; find_available_user
\* returned; the record is in the communications table
StagesOf(comms_after, comm_id) ==
    <<"RECEIVED", "CLASSIFIED", "USER_ASSIGNED">>
        \o (IF \E c \in comms_after : c.id = comm_id
            THEN <<"LOGGED">> ELSE <<>>)

\* the outcomes of classify_incoming_communication in the current state
ClassifyOutcomes(from_number, to_number, message_type, content) ==
    UNION {
      LET byRule == ru[1] # NULL
          targets == IF byRule THEN {ru}
                     ELSE default_classification(communications, from_number,
                                                 to_number, content)
      IN  UNION {
            {[communication_id |-> NextCommId,
              assigned_user |-> assigned_user,
              department |-> t[1],
              preferred_user |-> t[2],
              by_rule |-> byRule,
              routing_method |-> IF t[1] # NULL THEN "rules" ELSE "default",
              communications |->
                  create_communication_record(communications, NextCommId,
                      from_number, to_number, assigned_user, t[1],
                      message_type, content),
              users |-> route_communication(users, assigned_user, message_type)]
             : assigned_user \in find_available_user(users, t[1], t[2])}
            : t \in targets}
      : ru \in apply_routing_rules(routing_rules, from_number, to_number,
                                   message_type)}

classify_incoming_communication(from_number, to_number, message_type, content) ==
    /\ Cardinality(communications) < MaxComms
    /\ \E o \in ClassifyOutcomes(from_number, to_number, message_type, content) :
          /\ communications' = o.communications
          /\ users' = o.users
          /\ last' = [op |-> "classify_incoming_communication",
                      type |-> message_type,
                      communication_id |-> o.communication_id,
                      assigned_user |-> o.assigned_user,
                      department |-> o.department,
                      preferred_user |-> o.preferred_user,
                      by_rule |-> o.by_rule,
                      routing_method |-> o.routing_method,
                      users_before |-> users,
                      stages |-> StagesOf(o.communications, o.communication_id),
                      raised |-> FALSE]
    /\ UNCHANGED <<phoneVars, today, calls, departments, routing_rules,
                   active_sessions>>

\* classify_incoming_communication as two steps of an invocation p.
\* ClassifyFind is the read part: apply_routing_rules,
\* default_classification and find_available_user, each on a connection of
\* its own; the result stays in the invocation's local variables.  `after`
\* records the invocations that had already written when the lookup ran.
ClassifyFind(p, from_number, to_number, message_type, content) ==
    /\ calls[p].pc = "idle"
    /\ \E o \in ClassifyOutcomes(from_number, to_number, message_type, content) :
          calls' = [calls EXCEPT ![p] =
                      [pc |-> "found", op |-> "classify_incoming_communication",
                       from_number |-> from_number, to_number |-> to_number,
                       type |-> message_type, content |-> content,
                       department |-> o.department,
                       assigned_user |-> o.assigned_user,
                       communication_id |-> NULL,
                       seen |-> users,
                       after |-> {q \in Procs : calls[q].pc = "returned"}]]
    /\ last' = [op |-> "classify_find", proc |-> p]
    /\ UNCHANGED <<phoneVars, today, talkVars>>

\* a write part that assigns the user only if the user is still available
ClassifyWrite_recheck(p) ==
    /\ calls[p].pc = "found"
    /\ Cardinality(communications) < MaxComms
    /\ LET c == calls[p]
           assigned == IF \E u \in users : /\ u.id = c.assigned_user
                                           /\ u.status = "available"
                       THEN c.assigned_user ELSE NULL
       IN  /\ communications' =
                  create_communication_record(communications, NextCommId,
                      c.from_number, c.to_number, assigned,
                      c.department, c.type, c.content)
           /\ users' = route_communication(users, assigned, c.type)
           /\ calls' = [calls EXCEPT ![p].pc = "returned",
                                     ![p].assigned_user = assigned,
                                     ![p].communication_id = NextCommId]
    /\ last' = [op |-> "classify_write", proc |-> p]
    /\ UNCHANGED <<phoneVars, today, departments, routing_rules,
                   active_sessions>>

\* ClassifyWrite is the write part: create_communication_record (INSERT,
\* commit) and route_communication (update_user_status busy for a call),
\* with the user the lookup returned; the user's status is not read again.
ClassifyWrite(p) ==
    /\ calls[p].pc = "found"
    /\ Cardinality(communications) < MaxComms
    /\ LET c == calls[p]
       IN  /\ communications' =
                  create_communication_record(communications, NextCommId,
                      c.from_number, c.to_number, c.assigned_user,
                      c.department, c.type, c.content)
           /\ users' = route_communication(users, c.assigned_user, c.type)
           /\ calls' = [calls EXCEPT ![p].pc = "returned",
                                     ![p].communication_id = NextCommId]
    /\ last' = [op |-> "classify_write", proc |-> p]
    /\ UNCHANGED <<phoneVars, today, departments, routing_rules,
                   active_sessions>>

----------------------------------------------------------------------------
(* OneTalkRepoCommander *)

\* keys of load_repo_configurations()
RepoConfigs ==
    {"sales", "credit_analysis", "vehicle_transport", "customer_service",
     "admin"}

SessionRow(comm_id, department, user) ==
    [communication_id |-> comm_id, department |-> department, user |-> user,
     status |-> "active"]

\* classify, command the department repo (an unknown department returns an
\* error text), track the session; the returned dict indexes
\* repo_configs[department] and raises KeyError for an unknown department
handle_incoming_call(from_number, to_number, content) ==
    /\ Cardinality(communications) < MaxComms
    /\ \E o \in ClassifyOutcomes(from_number, to_number, "call", content) :
          /\ communications' = o.communications
          /\ users' = o.users
          /\ active_sessions' =
                 {x \in active_sessions : x.communication_id # o.communication_id}
                     \cup {SessionRow(o.communication_id, o.department,
                                      o.assigned_user)}
          /\ last' = [op |-> "handle_incoming_call",
                      type |-> "call",
                      communication_id |-> o.communication_id,
                      assigned_user |-> o.assigned_user,
                      department |-> o.department,
                      preferred_user |-> o.preferred_user,
                      by_rule |-> o.by_rule,
                      routing_method |-> o.routing_method,
                      users_before |-> users,
                      stages |-> StagesOf(o.communications, o.communication_id),
                      raised |-> o.department \notin RepoConfigs]
    /\ UNCHANGED <<phoneVars, today, calls, departments, routing_rules>>

handle_incoming_sms(from_number, to_number, message) ==
    /\ Cardinality(communications) < MaxComms
    /\ \E o \in ClassifyOutcomes(from_number, to_number, "sms", message) :
          /\ communications' = o.communications
          /\ users' = o.users
          /\ last' = [op |-> "handle_incoming_sms",
                      type |-> "sms",
                      communication_id |-> o.communication_id,
                      assigned_user |-> o.assigned_user,
                      department |-> o.department,
                      preferred_user |-> o.preferred_user,
                      by_rule |-> o.by_rule,
                      routing_method |-> o.routing_method,
                      users_before |-> users,
                      stages |-> StagesOf(o.communications, o.communication_id),
                      raised |-> FALSE]
    /\ UNCHANGED <<phoneVars, today, calls, departments, routing_rules,
                   active_sessions>>

----------------------------------------------------------------------------
(* Read-only operations: the returned value is recorded in last *)

GetAvailablePhone(department_id, priority_min) ==
    /\ \E ret \in get_available_phone(phone_numbers, department_id, priority_min) :
          last' = [op |-> "get_available_phone", department |-> department_id,
                   priority_min |-> priority_min, ret |-> ret]
    /\ UNCHANGED <<phoneVars, today, calls, talkVars>>

FindAvailableUser(department, preferred_user) ==
    /\ \E ret \in find_available_user(users, department, preferred_user) :
          last' = [op |-> "find_available_user", department |-> department,
                   preferred_user |-> preferred_user, ret |-> ret]
    /\ UNCHANGED <<phoneVars, today, calls, talkVars>>

ApplyRoutingRules(from_number, to_number) ==
    /\ \E ret \in apply_routing_rules(routing_rules, from_number, to_number, "call") :
          last' = [op |-> "apply_routing_rules", from_number |-> from_number,
                   to_number |-> to_number, ret |-> ret]
    /\ UNCHANGED <<phoneVars, today, calls, talkVars>>

DefaultClassification(from_number, to_number, content) ==
    /\ \E ret \in default_classification(communications, from_number,
                                          to_number, content) :
          last' = [op |-> "default_classification",
                   from_number |-> from_number, content |-> content,
                   ret |-> ret]
    /\ UNCHANGED <<phoneVars, today, calls, talkVars>>

\* datetime.now().strftime('%Y-%m-%d') moves on to the next day
AdvanceDay ==
    /\ today < MaxDay
    /\ today' = today + 1
    /\ last' = [op |-> "advance_day"]
    /\ UNCHANGED <<phoneVars, talkVars, calls>>

----------------------------------------------------------------------------
(* Inputs *)

UserIds == {"u1", "u2", "u3"}
UserNames == {"Alice", "Bob"}
UserDepartments == {"sales", "credit_analysis"}
Roles == {"lead", "member"}
Statuses == {"available", "busy", "offline"}

RuleTypes == {"phone_pattern", "department", "time_based"}
RulePatterns == {<<"CREDIT">>, <<"SALES">>}
RuleDepartments == {"sales", "credit_analysis", "finance"}
RulePriorities == {1, 5}

Contents == {<<>>, <<"buy">>}

----------------------------------------------------------------------------
(* The state after construction on a new database file *)

Init ==
    /\ phone_numbers = {}
    /\ call_routing = {}
    /\ phone_stats = {}
    /\ today = 1
    /\ users = {}
    /\ departments = {}
    /\ routing_rules = {}
    /\ communications = {}
    /\ active_sessions = {}
    /\ calls = NoCalls
    /\ last = [op |-> "init"]

RegisterPhoneNumber ==
    \E n \in RegNumbers, d \in PhoneDepartments, p \in Priorities, m \in Capacities :
        register_phone_number(n, d, NULL, "business", p, m)

RouteIncomingCall ==
    \E to \in ToNumbers, hint \in {NULL, "credit_analysis"} :
        route_incoming_call(NumCaller, to, hint)

EndCall ==
    \E id \in 1..MaxRoutes, d \in Durations : end_call(id, d)

QueryAvailablePhone ==
    \E d \in PhoneDepartments, pm \in {1, 10} : GetAvailablePhone(d, pm)

NextPhones ==
    \/ RegisterPhoneNumber
    \/ RouteIncomingCall
    \/ EndCall
    \/ QueryAvailablePhone

SpecPhones == Init /\ [][NextPhones]_vars

AddUser ==
    \E id \in UserIds, nm \in UserNames, d \in UserDepartments, r \in Roles :
        add_user(id, nm, d, NoPhone, r)

UpdateUserStatus ==
    \E id \in UserIds, st \in Statuses : update_user_status(id, st)

QueryAvailableUser ==
    \E d \in UserDepartments, pref \in UserIds \cup {NULL} :
        FindAvailableUser(d, pref)

NextDirectory ==
    \/ AddUser
    \/ UpdateUserStatus
    \/ QueryAvailableUser

SpecDirectory == Init /\ [][NextDirectory]_vars

AddRoutingRule ==
    \E ct \in RuleTypes, cv \in RulePatterns, td \in RuleDepartments,
       pr \in RulePriorities :
        add_routing_rule(ct, cv, td, NULL, pr)

QueryRoutingRules ==
    \E from \in FromNumbers, to \in ToNumbers : ApplyRoutingRules(from, to)

NextRules ==
    \/ AddRoutingRule
    \/ QueryRoutingRules

SpecRules == Init /\ [][NextRules]_vars

----------------------------------------------------------------------------
(* The dispatcher on a new database: one user, rules that send SALES       *)
(* numbers to sales or to a department the repo configuration lacks        *)

DispatchAddUser == add_user("u1", "Alice", "sales", NoPhone, "lead")

DispatchAddRule ==
    \E td \in {"sales", "finance"} :
        add_routing_rule("phone_pattern", <<"SALES">>, td, NULL, 1)

HandleIncomingCall ==
    \E to \in {NumSales, NumCaller}, content \in Contents :
        handle_incoming_call(NumCaller, to, content)

HandleIncomingSms ==
    \E to \in {NumSales, NumCaller}, content \in Contents :
        handle_incoming_sms(NumCaller, to, content)

ClassifyVoicemail ==
    classify_incoming_communication(NumCaller, NumCaller, "voicemail", <<>>)

NextDispatch ==
    \/ DispatchAddUser
    \/ DispatchAddRule
    \/ HandleIncomingCall
    \/ HandleIncomingSms
    \/ ClassifyVoicemail

SpecDispatch == Init /\ [][NextDispatch]_vars

----------------------------------------------------------------------------
(* get_available_phone over the phone tables a database file can hold:    *)
(* the rows are drawn from bounded sets, current_calls included            *)

SeedNumbers == {NumSales, NumCreditSales}

RegistryAttrs ==
    [department_id : {"sales", "general", NULL}, priority : Priorities,
     max_concurrent_calls : Capacities, current_calls : 0..MaxCap]

SeedRow(n, a) ==
    [PhoneRow(n, a.department_id, NULL, "business", a.priority,
              a.max_concurrent_calls)
        EXCEPT !.current_calls = a.current_calls]

RegistryTables ==
    UNION {{{SeedRow(n, f[n]) : n \in N} : f \in [N -> RegistryAttrs]} :
              N \in {M \in SUBSET SeedNumbers : Cardinality(M) <= MaxPhones}}

InitRegistry ==
    /\ phone_numbers \in RegistryTables
    /\ call_routing = {}
    /\ phone_stats = {StatsRow(r.phone_number, 1) : r \in phone_numbers}
    /\ today = 1
    /\ users = {}
    /\ departments = {}
    /\ routing_rules = {}
    /\ communications = {}
    /\ active_sessions = {}
    /\ calls = NoCalls
    /\ last = [op |-> "init"]

QueryRegistry ==
    \E d \in {"sales", "general", NULL}, pm \in {1, 10} : GetAvailablePhone(d, pm)

RegistryIncomingCall ==
    \E to \in {NumSales, NumCaller} : route_incoming_call(NumCaller, to, NULL)

NextRegistry ==
    \/ QueryRegistry
    \/ RegistryIncomingCall

SpecRegistry == InitRegistry /\ [][NextRegistry]_vars

----------------------------------------------------------------------------
(* end_call over the tables a database file can hold: phone rows with any  *)
(* current_calls, call_routing rows active or completed, and the           *)
(* phone_stats rows registration leaves                                    *)

StoreAttrs ==
    [department_id : {"sales"}, priority : {5},
     max_concurrent_calls : {MaxCap}, current_calls : 0..MaxCap]

StorePhoneTables ==
    {{}} \cup {{SeedRow(NumSales, a)} : a \in StoreAttrs}

StoreRoute(id, a) ==
    [RouteRow(id, NumCaller, NumSales, a.routed_to_number, "sales",
              "normal_routing")
        EXCEPT !.status = a.status,
               !.call_duration = IF a.status = "completed" THEN 1 ELSE NULL]

StoreRouteAttrs ==
    [routed_to_number : {NumSales, VoicemailNumber},
     status : {"active", "completed"}]

StoreRouteTables ==
    UNION {{{StoreRoute(i, f[i]) : i \in 1..k} : f \in [1..k -> StoreRouteAttrs]} :
              k \in 0..(MaxRoutes - 1)}

InitStore ==
    /\ phone_numbers \in StorePhoneTables
    /\ call_routing \in StoreRouteTables
    /\ phone_stats = {StatsRow(r.phone_number, 1) : r \in phone_numbers}
    /\ today = 1
    /\ users = {}
    /\ departments = {}
    /\ routing_rules = {}
    /\ communications = {}
    /\ active_sessions = {}
    /\ calls = NoCalls
    /\ last = [op |-> "init"]

StoreEndCall ==
    \E id \in 1..MaxRoutes, d \in Durations : end_call(id, d)

StoreIncomingCall == handle_incoming_call(NumCaller, NumSales, <<"buy">>)

NextStore ==
    \/ StoreEndCall
    \/ DispatchAddUser
    \/ StoreIncomingCall
    \/ AdvanceDay

SpecStore == InitStore /\ [][NextStore]_vars

----------------------------------------------------------------------------
(* default_classification over the communications tables a database file   *)
(* can hold: the earlier records of a caller, in the order they were       *)
(* written, each in a department one of the classifications assigns        *)

HistoryDepartments == {"sales", "credit_analysis"}

HistoryTables ==
    UNION {{{CommRow(i, NumCaller, NumSales, NULL, f[i], "call", <<>>) :
                 i \in 1..k} : f \in [1..k -> HistoryDepartments]} :
              k \in 0..MaxHistory}

KeywordContents ==
    {<<>>, <<"hello">>, <<"CREDIT">>, <<"loan">>, <<"transport">>,
     <<"delivery">>, <<"buy">>, <<"sales">>, <<"deal", "shipping">>,
     <<"purchase", "approval">>, <<"vehicle", "financing">>}

InitHistory ==
    /\ phone_numbers = {}
    /\ call_routing = {}
    /\ phone_stats = {}
    /\ today = 1
    /\ users = {}
    /\ departments = {}
    /\ routing_rules = {}
    /\ communications \in HistoryTables
    /\ active_sessions = {}
    /\ calls = NoCalls
    /\ last = [op |-> "init"]

QueryDefaultClassification ==
    \E from \in FromNumbers, content \in KeywordContents :
        DefaultClassification(from, NumSales, content)

NextHistory == QueryDefaultClassification

SpecHistory == InitHistory /\ [][NextHistory]_vars

----------------------------------------------------------------------------
(* Two invocations of route_incoming_call running concurrently on a new    *)
(* database, their steps interleaved in any order                          *)

RaceRegister ==
    \E n \in SeedNumbers, m \in Capacities :
        register_phone_number(n, "sales", NULL, "business", 10, m)

RaceRouteCheck ==
    \E p \in Procs : RouteCheck(p, NumCaller, NumSales, NULL)

RaceRouteWrite == \E p \in Procs : RouteWrite(p)

NextPhoneRace ==
    \/ RaceRegister
    \/ RaceRouteCheck
    \/ RaceRouteWrite

SpecPhoneRace == Init /\ [][NextPhoneRace]_vars

----------------------------------------------------------------------------
(* Two invocations of classify_incoming_communication running concurrently *)
(* on a new database, their steps interleaved in any order                 *)

RaceAddUser ==
    \E id \in {"u1", "u2"}, d \in UserDepartments :
        add_user(id, "Alice", d, NoPhone, "member")

RaceClassifyFind ==
    \E p \in Procs, t \in {"call", "sms"} :
        ClassifyFind(p, NumCaller, NumSales, t, <<"buy">>)

RaceClassifyWrite == \E p \in Procs : ClassifyWrite(p)

NextUserRace ==
    \/ RaceAddUser
    \/ RaceClassifyFind
    \/ RaceClassifyWrite

SpecUserRace == Init /\ [][NextUserRace]_vars

----------------------------------------------------------------------------
(* route_incoming_call and end_call over the stores in which every call    *)
(* was counted once: one phone whose current_calls is the number of its    *)
(* active call_routing rows                                                *)

\* rows of call_routing that count against a phone's capacity
ActiveRoutes(routes, n) ==
    {r \in routes : r.status = "active" /\ r.routed_to_number = n}

LedgerRouteAttrs ==
    [routed_to_number : {NumSales}, status : {"active", "completed"}]

LedgerRouteTables ==
    UNION {{{StoreRoute(i, f[i]) : i \in 1..k} : f \in [1..k -> LedgerRouteAttrs]} :
              k \in 0..MaxRoutes}

InitLedger ==
    /\ phone_numbers \in {{SeedRow(NumSales, a)} : a \in StoreAttrs}
    /\ call_routing \in LedgerRouteTables
    /\ \A r \in phone_numbers :
          r.current_calls = Cardinality(ActiveRoutes(call_routing, r.phone_number))
    /\ phone_stats = {StatsRow(r.phone_number, 1) : r \in phone_numbers}
    /\ today = 1
    /\ users = {}
    /\ departments = {}
    /\ routing_rules = {}
    /\ communications = {}
    /\ active_sessions = {}
    /\ calls = NoCalls
    /\ last = [op |-> "init"]

LedgerIncomingCall == route_incoming_call(NumCaller, NumSales, NULL)

LedgerEndCall ==
    \E id \in 1..MaxRoutes, d \in Durations : end_call(id, d)

NextLedger ==
    \/ LedgerIncomingCall
    \/ LedgerEndCall

SpecLedger == InitLedger /\ [][NextLedger]_vars

----------------------------------------------------------------------------
(* classify_incoming_communication and end_call alone, over the stores a   *)
(* database file can hold: sales users as add_user leaves them, and the    *)
(* phone and call_routing rows of InitStore                                *)

ShiftUsers ==
    {UserRow("u1", "Alice", "sales", NoPhone, "lead"),
     UserRow("u2", "Bob", "sales", NoPhone, "member")}

ShiftUserTables == SUBSET ShiftUsers

InitShift ==
    /\ phone_numbers \in StorePhoneTables
    /\ call_routing \in StoreRouteTables
    /\ phone_stats = {StatsRow(r.phone_number, 1) : r \in phone_numbers}
    /\ today = 1
    /\ users \in ShiftUserTables
    /\ departments = {}
    /\ routing_rules = {}
    /\ communications = {}
    /\ active_sessions = {}
    /\ calls = NoCalls
    /\ last = [op |-> "init"]

ShiftClassify ==
    \E message_type \in {"call", "sms"} :
        classify_incoming_communication(NumCaller, NumSales, message_type,
                                        <<"buy">>)

ShiftEndCall ==
    \E id \in 1..MaxRoutes, d \in Durations : end_call(id, d)

NextShift ==
    \/ ShiftClassify
    \/ ShiftEndCall

SpecShift == InitShift /\ [][NextShift]_vars

----------------------------------------------------------------------------
(* The whole program on a new database *)

Next ==
    \/ NextPhones
    \/ NextDirectory
    \/ NextRules
    \/ NextDispatch
    \/ NextPhoneRace
    \/ NextUserRace
    \/ AdvanceDay

Spec == Init /\ [][Next]_vars

----------------------------------------------------------------------------
(* Claims *)

\* C1: for every registered phone, in every state reachable by
\* register_phone_number, route_incoming_call (overflow path included) and
\* end_call, 0 <= current_calls <= max_concurrent_calls.
C1_CallsWithinCapacity ==
    \A r \in phone_numbers :
        0 <= r.current_calls /\ r.current_calls <= r.max_concurrent_calls

\* route_incoming_call has run to its usage update through the overflow
\* path, with a registered line chosen
C1_Witness ==
    /\ last.op = "route_incoming_call"
    /\ last.routing_reason \in {"overflow_same_department",
                                "overflow_cross_department"}
    /\ \E r \in phone_numbers : r.phone_number = last.routed_to

\* C5: register_phone_number on a number that is already registered returns
\* the duplicate outcome and changes neither the phone rows nor phone_stats;
\* no two phone rows share a phone number.
C5_DuplicateRejected ==
    [][ /\ (/\ last'.op = "register_phone_number"
            /\ \E r \in phone_numbers : r.phone_number = last'.number)
           => (/\ last'.ret = "already registered"
               /\ phone_numbers' = phone_numbers
               /\ phone_stats' = phone_stats)
        /\ \A a, b \in phone_numbers' :
               a.phone_number = b.phone_number => a = b ]_vars

\* a registration of a registered number has been refused
C5_Witness ==
    /\ last.op = "register_phone_number"
    /\ last.ret = "already registered"
    /\ \E r \in phone_numbers : r.phone_number = last.number

\* C2: apply_routing_rules returns the (department, user) of a matching
\* active rule that no matching rule precedes in priority (smaller number
\* first), whatever the insertion order; it returns (none, none) only when
\* no rule matches.
C2_FirstMatchByPriority ==
    last.op = "apply_routing_rules" =>
        LET hits == {r \in routing_rules :
                        /\ r.is_active
                        /\ RuleMatches(r, last.from_number, last.to_number)}
        IN  IF hits = {}
            THEN last.ret = <<NULL, NULL>>
            ELSE \E r \in hits :
                    /\ last.ret = <<r.target_department, r.target_user>>
                    /\ \A q \in hits : q.priority >= r.priority

\* SALES->sales at priority 5 was added before CREDIT->credit_analysis at
\* priority 1, and a call to +1-555-CREDIT-SALES-01 resolved to
\* credit_analysis
C2_Witness ==
    /\ last.op = "apply_routing_rules"
    /\ last.to_number = NumCreditSales
    /\ last.ret = <<"credit_analysis", NULL>>
    /\ \E a, b \in routing_rules :
          /\ a.id < b.id
          /\ a.condition_type = "phone_pattern" /\ a.condition_value = <<"SALES">>
          /\ a.target_department = "sales" /\ a.priority = 5
          /\ b.condition_type = "phone_pattern" /\ b.condition_value = <<"CREDIT">>
          /\ b.target_department = "credit_analysis" /\ b.priority = 1

\* C3: find_available_user never returns a user who is not available or
\* who is outside the requested department: a returned user is available
\* and in the department at the moment of the lookup.
C3_ReturnedUserAvailableInDepartment ==
    last.op = "find_available_user" /\ last.ret # NULL =>
        \E u \in users : /\ u.id = last.ret
                         /\ u.status = "available"
                         /\ u.department = last.department

\* a lookup returned a user while another user of the department was busy
\* and a user of another department was available
C3_Witness ==
    /\ last.op = "find_available_user"
    /\ last.ret # NULL
    /\ \E u \in users : u.status # "available"
    /\ \E u \in users : u.department # last.department /\ u.status = "available"

\* C7: when the preferred user is not returned and the department has
\* several available users, a lead is returned in preference to a member,
\* and among users of one role the one with the smallest name.
C7_LeadBeforeMember ==
    (/\ last.op = "find_available_user"
     /\ last.ret # last.preferred_user
     /\ last.ret # NULL) =>
        \E u \in users :
            /\ u.id = last.ret
            /\ \A v \in users :
                  (v.department = last.department /\ v.status = "available") =>
                      /\ ~ (v.role = "lead" /\ u.role = "member")
                      /\ (v.role = u.role => ~ StrLess(v.name, u.name))

\* C8: find_available_user returns the preferred user exactly when that
\* user exists, is in the department and is available; otherwise the result
\* is the fallback's: an available user of the department other than the
\* preferred one, or none when the department has no available user.
C8_PreferredExactlyWhenEligible ==
    last.op = "find_available_user" /\ last.preferred_user # NULL =>
        LET eligible == \E u \in users : /\ u.id = last.preferred_user
                                         /\ u.department = last.department
                                         /\ u.status = "available"
            cand == {u \in users : /\ u.department = last.department
                                   /\ u.status = "available"}
        IN  /\ (last.ret = last.preferred_user) <=> eligible
            /\ ~ eligible => IF cand = {} THEN last.ret = NULL
                             ELSE \E u \in cand : u.id = last.ret

\* the preferred user existed but was busy or in another department, and
\* the lookup fell back to another user
C8_Witness ==
    /\ last.op = "find_available_user"
    /\ last.preferred_user # NULL
    /\ \E u \in users : /\ u.id = last.preferred_user
                        /\ \/ u.status # "available"
                           \/ u.department # last.department
    /\ last.ret # NULL
    /\ last.ret # last.preferred_user

\* the preferred user was eligible and was returned although another user
\* of the department comes first in the fallback order
C8_WitnessPreferred ==
    /\ last.op = "find_available_user"
    /\ last.ret = last.preferred_user
    /\ last.ret # NULL
    /\ \E u, v \in users : /\ u.id = last.ret
                           /\ v.department = last.department
                           /\ v.status = "available"
                           /\ BeforeUser(v, u)

InboundOps ==
    {"handle_incoming_call", "handle_incoming_sms",
     "classify_incoming_communication"}

C6_BestAvailablePhone ==
    last.op = "get_available_phone" =>
        LET ok == {r \in phone_numbers :
                      /\ r.current_calls < r.max_concurrent_calls
                      /\ r.priority >= last.priority_min}
            own == {r \in ok : /\ last.department # NULL
                               /\ r.department_id = last.department}
            gen == {r \in ok : r.department_id \in {NULL, "general"}}
            group == IF own # {} THEN own ELSE gen
        IN  IF group = {}
            THEN last.ret = NoPhone
            ELSE \E r \in group :
                    /\ r.phone_number = last.ret
                    /\ \A q \in group :
                          /\ q.priority <= r.priority
                          /\ q.priority = r.priority
                                => q.current_calls >= r.current_calls

\* a department number was returned although a general number has a higher
\* priority, or the less loaded of two numbers of equal priority was
\* returned
C6_Witness ==
    /\ last.op = "get_available_phone"
    /\ last.ret # NoPhone
    /\ \E r, q \in phone_numbers :
          /\ r.phone_number = last.ret
          /\ q.current_calls < q.max_concurrent_calls
          /\ q.priority >= last.priority_min
          /\ \/ /\ q.department_id = r.department_id
                /\ q.priority = r.priority
                /\ q.current_calls > r.current_calls
             \/ /\ r.department_id = "sales"
                /\ q.department_id = NULL
                /\ q.priority > r.priority

\* the requested department's only number was full and a general number
\* was returned
C6_WitnessFallback ==
    /\ last.op = "get_available_phone"
    /\ last.department = "sales"
    /\ last.ret # NoPhone
    /\ \E r, q \in phone_numbers :
          /\ r.phone_number = last.ret
          /\ r.department_id \in {NULL, "general"}
          /\ q.department_id = "sales"
          /\ q.current_calls >= q.max_concurrent_calls

\* C9: no phone ever has current_calls < 0, and end_call on a route whose
\* phone has current_calls = 0 leaves it at 0, also when end_call is
\* repeated on the same route.
C9_DecrementClampsAtZero ==
    [][ /\ \A r \in phone_numbers' : r.current_calls >= 0
        /\ (last'.op = "end_call" /\ last'.found) =>
              \A r \in phone_numbers, q \in phone_numbers' :
                  (/\ r.phone_number = last'.routed_to
                   /\ q.phone_number = r.phone_number
                   /\ r.current_calls = 0) => q.current_calls = 0 ]_vars

\* end_call ran again on a completed route whose phone had no call in
\* flight
C9_Witness ==
    /\ last.op = "end_call"
    /\ last.found
    /\ last.status_before = "completed"
    /\ \E r \in last.before :
          r.phone_number = last.routed_to /\ r.current_calls = 0
    /\ \E r \in phone_numbers :
          r.phone_number = last.routed_to /\ r.current_calls = 0

\* C10: end_call leaves every user's status unchanged; a user marked busy
\* by a routed call is still busy after end_call for that call.
C10_EndCallKeepsUserStatus ==
    [][ last'.op = "end_call" => users' = users ]_vars

\* end_call completed an active route of the caller whose call had made a
\* user busy, and the user is still busy
C10_Witness ==
    /\ last.op = "end_call"
    /\ last.found
    /\ last.status_before = "active"
    /\ \E u \in users, c \in communications, r \in call_routing :
          /\ r.id = last.route_id
          /\ r.status = "completed"
          /\ c.from_number = r.from_number
          /\ c.type = "call"
          /\ c.user_id = u.id
          /\ u.status = "busy"

C12_RoutedCallCounted ==
    (/\ last.op = "route_incoming_call"
     /\ last.to_number = NumSales
     /\ phone_numbers # {}
     /\ \A r \in phone_numbers :
           /\ r.phone_number = NumSales
           /\ r.department_id = "sales"
           /\ r.priority = 10
           /\ r.max_concurrent_calls = 1)
    => (/\ ~ last.raised
        /\ last.department = "sales"
        /\ last.routed_to = NumSales
        /\ \A r \in phone_numbers : r.current_calls = 1)

\* C13: a call classified into a department whose only user is busy on an
\* earlier, still active call is not assigned that user; it falls back to
\* cross-department overflow (a user of another department) or to the
\* voicemail sink.
C13_SecondCallFallsBack ==
    (/\ last.op \in {"classify_incoming_communication", "handle_incoming_call"}
     /\ last.type = "call"
     /\ \E u \in last.users_before :
           /\ u.department = last.department
           /\ u.status = "busy"
           /\ \A v \in last.users_before :
                  v.department = last.department => v = u
           /\ \E c \in communications :
                  /\ c.id < last.communication_id
                  /\ c.type = "call" /\ c.status = "active"
                  /\ c.user_id = u.id
                  /\ c.department_id = last.department)
    => \E c \in communications :
          /\ c.id = last.communication_id
          /\ \A u \in last.users_before :
                 u.status = "busy" => c.user_id # u.id
          /\ \/ \E v \in users : /\ v.id = c.user_id
                                  /\ v.department # last.department
             \/ c.type = "voicemail"
             \/ c.to_number = VoicemailNumber

\* C14 as stated: get_available_phone for a department that has no
\* registered phone returns the 'none available' value (None).
C14_NoDepartmentPhoneReturnsNone ==
    (/\ last.op = "get_available_phone"
     /\ last.department # NULL
     /\ ~ \E r \in phone_numbers : r.department_id = last.department)
    => last.ret = NoPhone

\* C14 amended: for a department that has no registered phone,
\* get_available_phone returns (and does not raise) the number of a general
\* phone (department NULL or 'general') that is available, below its
\* capacity and of sufficient priority, when there is one, and None
\* exactly when there is none.
C14_NoDepartmentPhoneFallsBackToGeneral ==
    (/\ last.op = "get_available_phone"
     /\ last.department # NULL
     /\ ~ \E r \in phone_numbers : r.department_id = last.department)
    => LET general == {r \in phone_numbers :
                          /\ r.department_id \in {NULL, "general"}
                          /\ r.status = "available"
                          /\ r.current_calls < r.max_concurrent_calls
                          /\ r.priority >= last.priority_min}
       IN  IF general = {}
           THEN last.ret = NoPhone
           ELSE \E r \in general : last.ret = r.phone_number

\* the lookup for sales found no sales phone and returned None although
\* phones are registered: the general ones are at capacity or below the
\* requested priority
C14_Witness ==
    /\ last.op = "get_available_phone"
    /\ last.department = "sales"
    /\ last.ret = NoPhone
    /\ phone_numbers # {}
    /\ ~ \E r \in phone_numbers : r.department_id = "sales"

C16_BothIncrementPastCapacity ==
    (/\ \A p \in Procs : /\ calls[p].pc \in {"returned", "raised"}
                         /\ calls[p].op = "route_incoming_call"
                         /\ calls[p].routing_reason = "normal_routing"
     /\ calls["p1"].routed_to = calls["p2"].routed_to
     /\ calls["p1"].seen = calls["p2"].seen
     /\ \E r \in calls["p1"].seen :
           /\ r.phone_number = calls["p1"].routed_to
           /\ r.current_calls + 1 = r.max_concurrent_calls)
    => \E r \in phone_numbers :
          /\ r.phone_number = calls["p1"].routed_to
          /\ r.current_calls > r.max_concurrent_calls

\* C17: when two concurrent classify_incoming_communication invocations of
\* type call have both run find_available_user before either wrote, and the
\* department had one available user at both lookups, then both are
\* assigned that user and two active communication records carry the
\* user's id.
C17_BothAssignedSameUser ==
    (/\ \A p \in Procs : /\ calls[p].pc = "returned"
                         /\ calls[p].op = "classify_incoming_communication"
                         /\ calls[p].type = "call"
                         /\ calls[p].after = {}
     /\ calls["p1"].department = calls["p2"].department)
    => \A u \in calls["p1"].seen \cap calls["p2"].seen :
          (\A p \in Procs : \A v \in calls[p].seen :
               (v.department = calls[p].department /\ v.status = "available")
                   <=> v = u)
          => /\ \A p \in Procs : calls[p].assigned_user = u.id
             /\ \E a, b \in communications :
                   /\ a.id = calls["p1"].communication_id
                   /\ b.id = calls["p2"].communication_id
                   /\ a.id # b.id
                   /\ a.user_id = u.id /\ b.user_id = u.id
                   /\ a.type = "call" /\ b.type = "call"
                   /\ a.status = "active" /\ b.status = "active"

\* both invocations looked up before either wrote, and two active call
\* records carry the id of the same user, who is busy
C17_Witness ==
    /\ \A p \in Procs : /\ calls[p].pc = "returned"
                        /\ calls[p].op = "classify_incoming_communication"
                        /\ calls[p].type = "call"
                        /\ calls[p].after = {}
    /\ calls["p1"].assigned_user # NULL
    /\ calls["p1"].assigned_user = calls["p2"].assigned_user
    /\ \E a, b \in communications, u \in users :
          /\ a.id # b.id
          /\ a.user_id = u.id /\ b.user_id = u.id
          /\ u.id = calls["p1"].assigned_user
          /\ u.status = "busy"
          /\ a.status = "active" /\ b.status = "active"

\* C18: a classification of an inbound event sets the status of the
\* resolved user to busy when the event is a call and a user was resolved,
\* and changes nothing else in the users table; for an sms or a voicemail,
\* and for a call with no user resolved, the users table is unchanged.
C18_BusyOnlyForAssignedCall ==
    [][ last'.op \in InboundOps =>
           IF last'.type = "call" /\ last'.assigned_user # NULL
           THEN users' = {IF u.id = last'.assigned_user
                          THEN [u EXCEPT !.status = "busy"]
                          ELSE u : u \in users}
           ELSE users' = users ]_vars

\* a call was assigned a user who was available and is now busy
C18_Witness ==
    /\ last.op = "handle_incoming_call"
    /\ last.assigned_user # NULL
    /\ \E u \in last.users_before :
          u.id = last.assigned_user /\ u.status = "available"
    /\ \E u \in users : u.id = last.assigned_user /\ u.status = "busy"

\* an sms was assigned a user, who is still available
C18_WitnessSms ==
    /\ last.op = "handle_incoming_sms"
    /\ last.assigned_user # NULL
    /\ \E u \in users : u.id = last.assigned_user /\ u.status = "available"

\* C19: for a number with earlier communication records,
\* default_classification returns the (department, user) pair with the most
\* records for that number, ties broken by the most recent record, whatever
\* the content; the keywords decide only for a number without records.
C19_MostFrequentThenMostRecent ==
    last.op = "default_classification" =>
        LET rows == {c \in communications :
                        \/ c.from_number = last.from_number
                        \/ c.to_number = last.from_number}
            group(g) == {c \in rows : <<c.department_id, c.user_id>> = g}
            count(g) == Cardinality(group(g))
            recent(g) == CHOOSE t \in {c.timestamp : c \in group(g)} :
                             \A c \in group(g) : c.timestamp <= t
        IN  IF rows = {}
            THEN last.ret = <<KeywordDepartment(last.content), NULL>>
            ELSE /\ group(last.ret) # {}
                 /\ \A c \in rows :
                       LET h == <<c.department_id, c.user_id>>
                       IN  \/ count(h) < count(last.ret)
                           \/ /\ count(h) = count(last.ret)
                              /\ recent(h) <= recent(last.ret)

\* C20: for a caller without earlier records, default_classification
\* returns credit_analysis when the content has a credit term, otherwise
\* vehicle_transport when it has a transport term, otherwise sales when it
\* has a sales term, otherwise customer_service; the department is never
\* null and no user is preferred.
C20_KeywordOrder ==
    (/\ last.op = "default_classification"
     /\ ~ \E c \in communications :
            \/ c.from_number = last.from_number
            \/ c.to_number = last.from_number)
    => LET text == Lower(last.content)
           has(terms) == \E i \in 1..Len(text) : text[i] \in terms
           credit == has({"credit", "loan", "financing", "approval"})
           transport == has({"transport", "vehicle", "shipping", "delivery"})
           sales == has({"sales", "buy", "purchase", "deal"})
       IN  /\ last.ret[1] # NULL
           /\ last.ret[2] = NULL
           /\ credit => last.ret[1] = "credit_analysis"
           /\ (~ credit /\ transport) => last.ret[1] = "vehicle_transport"
           /\ (~ credit /\ ~ transport /\ sales) => last.ret[1] = "sales"
           /\ (~ credit /\ ~ transport /\ ~ sales)
                  => last.ret[1] = "customer_service"

\* a content with a sales term and a credit term, from a caller without
\* records while other records exist, was classified credit_analysis
C20_Witness ==
    /\ last.op = "default_classification"
    /\ last.content = <<"purchase", "approval">>
    /\ last.ret = <<"credit_analysis", NULL>>
    /\ communications # {}
    /\ ~ \E c \in communications :
           \/ c.from_number = last.from_number
           \/ c.to_number = last.from_number

\* C21: phone_stats holds at most one row per (phone number, date); a
\* route_incoming_call that routes to a registered phone leaves a row for
\* (that phone, today) whose total_calls is one more than before (one more
\* than 0 when the row was absent), so that total_calls counts the calls
\* routed; register_phone_number keeps every existing row and its counters.
C21_StatsUpsertThenIncrement ==
    [][ /\ \A a, b \in phone_stats' :
              (a.phone_number = b.phone_number /\ a.date = b.date) => a = b
        /\ (/\ last'.op = "route_incoming_call"
            /\ \E r \in phone_numbers : r.phone_number = last'.routed_to)
           => \E t \in phone_stats' :
                 /\ t.phone_number = last'.routed_to
                 /\ t.date = today
                 /\ \/ \E s \in phone_stats :
                          /\ s.phone_number = t.phone_number
                          /\ s.date = t.date
                          /\ t.total_calls = s.total_calls + 1
                    \/ /\ ~ \E s \in phone_stats :
                            s.phone_number = t.phone_number /\ s.date = t.date
                       /\ t.total_calls = 1
        /\ last'.op = "register_phone_number"
           => \A s \in phone_stats : s \in phone_stats' ]_vars

----------------------------------------------------------------------------
\* C22: the communications table is append-only.  Every operation keeps
\* each existing record with its id, from_number, to_number, user_id,
\* department_id and type, so the number of records never decreases; each
\* classify_incoming_communication (called directly or through
\* handle_incoming_call / handle_incoming_sms) adds exactly one record, whose
\* id no earlier record has.
C22_CommunicationsAppendOnly ==
    [][ /\ \A c \in communications :
              \E d \in communications' :
                 /\ d.id = c.id
                 /\ d.from_number = c.from_number
                 /\ d.to_number = c.to_number
                 /\ d.user_id = c.user_id
                 /\ d.department_id = c.department_id
                 /\ d.type = c.type
        /\ Cardinality(communications') >= Cardinality(communications)
        /\ last'.op \in InboundOps
           => \E c \in communications' :
                 /\ c.id = last'.communication_id
                 /\ ~ \E d \in communications : d.id = c.id
                 /\ c \notin communications
                 /\ communications' = communications \cup {c}
        /\ last'.op \notin InboundOps
           => communications' = communications ]_vars

\* two inbound calls have been logged, one after the other, the second next
\* to the record of the first
C22_Witness ==
    /\ last.op = "handle_incoming_call"
    /\ Cardinality(communications) = 2
    /\ \E c, d \in communications : c.id # d.id /\ d.id = last.communication_id

----------------------------------------------------------------------------
----------------------------------------------------------------------------
----------------------------------------------------------------------------
\* C25: route_incoming_call completes without a lock conflict: it raises
\* no error, and when it returns both the call_routing row and the usage
\* increment of the routed phone are committed.
C25_RouteCommitsRecordAndIncrement ==
    [][ last'.op = "route_incoming_call" =>
           /\ ~ last'.raised
           /\ \E r \in call_routing' :
                 r.id = last'.route_id /\ r \notin call_routing
           /\ \A r \in phone_numbers :
                 r.phone_number = last'.routed_to =>
                    \E q \in phone_numbers' :
                       /\ q.phone_number = r.phone_number
                       /\ q.current_calls = r.current_calls + 1 ]_vars

----------------------------------------------------------------------------
\* C26: the routing_method that classify_incoming_communication returns is
\* 'rules' exactly when a routing rule determined the department and
\* 'default' exactly when default_classification (history or keywords) did.
C26_RoutingMethodNamesTheSource ==
    [][ last'.op \in InboundOps =>
           /\ last'.routing_method = "rules" <=> last'.by_rule
           /\ last'.routing_method = "default" <=> ~ last'.by_rule ]_vars

----------------------------------------------------------------------------
\* C27: in executions of classify_incoming_communication and end_call only,
\* the set of available users never grows and a busy user stays busy; so a
\* call classified to a department none of whose users is available is
\* logged with a null user, and this stays so for every later call.
C27_AvailableUsersNeverGrow ==
    [][ /\ {u.id : u \in {v \in users' : v.status = "available"}}
              \subseteq {u.id : u \in {v \in users : v.status = "available"}}
        /\ \A u \in users :
              u.status = "busy" =>
                 \E v \in users' : v.id = u.id /\ v.status = "busy"
        /\ (/\ last'.op = "classify_incoming_communication"
            /\ ~ \E u \in users : /\ u.department = last'.department
                                  /\ u.status = "available")
           => /\ last'.assigned_user = NULL
              /\ \E c \in communications' :
                    /\ c.id = last'.communication_id
                    /\ c.user_id = NULL ]_vars

\* the only sales user took a call and is busy, end_call has completed a
\* route of that caller, and the next call to sales was logged with no user
C27_Witness ==
    /\ last.op = "classify_incoming_communication"
    /\ last.type = "call"
    /\ last.department = "sales"
    /\ last.assigned_user = NULL
    /\ \E u \in users : u.department = "sales"
    /\ \A u \in users : u.department = "sales" => u.status = "busy"
    /\ \E c \in communications : c.type = "call" /\ c.user_id # NULL
    /\ \E c \in communications :
          c.id = last.communication_id /\ c.user_id = NULL
    /\ \E r \in call_routing : r.status = "completed" /\ r.call_duration = 2

----------------------------------------------------------------------------
\* C28: add_user with an id that exists replaces the stored user: the one
\* row with that id has the new name, department, phone and role and the
\* status 'available' whatever the status was before, every other user is
\* unchanged, and find_available_user selects the re-added user again.
C28_AddUserReplacesAndResets ==
    [][ last'.op = "add_user" =>
           /\ \E u \in users' : u.id = last'.user_id
           /\ \A u \in users' :
                 u.id = last'.user_id =>
                    /\ u.name = last'.name
                    /\ u.department = last'.department
                    /\ u.phone_number = last'.phone_number
                    /\ u.role = last'.role
                    /\ u.status = "available"
           /\ \A u \in users : u.id # last'.user_id => u \in users'
           /\ \A u \in users' : u.id # last'.user_id => u \in users
           /\ last'.user_id \in {u.id : u \in AvailableInDepartment(users',
                                                       last'.department)}
           /\ find_available_user(users', last'.department, last'.user_id)
                 = {last'.user_id} ]_vars

\* a busy user was added again under another name, department and role
C28_Witness ==
    /\ last.op = "add_user"
    /\ last.status_before = "busy"
    /\ last.name = "Bob"
    /\ last.department = "credit_analysis"
    /\ last.role = "member"
    /\ \E u \in users :
          /\ u.id = last.user_id
          /\ u.name = "Bob"
          /\ u.status = "available"
    /\ Cardinality(users) >= 2

----------------------------------------------------------------------------
\* C29: every phone_stats row belongs to a registered phone number, also
\* after a call that overflows to the voicemail number; routing a call to
\* the voicemail number changes the current_calls of no registered phone.
C29_StatsOnlyForRegisteredPhones ==
    [][ /\ \A s \in phone_stats' :
              \E r \in phone_numbers' : r.phone_number = s.phone_number
        /\ (/\ last'.op = "route_incoming_call"
            /\ last'.routed_to = VoicemailNumber)
           => \A r \in phone_numbers :
                 \E q \in phone_numbers' :
                    /\ q.phone_number = r.phone_number
                    /\ q.current_calls = r.current_calls ]_vars

\* no line is registered, a call has overflowed to the voicemail number,
\* and no phone_stats row was written for it
C29_Witness ==
    /\ last.op = "route_incoming_call"
    /\ last.routed_to = VoicemailNumber
    /\ last.routing_reason = "overflow_voicemail"
    /\ phone_numbers = {}
    /\ ~ \E s \in phone_stats : s.phone_number = VoicemailNumber

----------------------------------------------------------------------------
\* C30: end_call with a route id that no call_routing row has changes
\* nothing: every call_routing row, every phone's current_calls and every
\* phone_stats counter is as before (and so is every other table), and no
\* error is raised.
C30_UnknownRouteChangesNothing ==
    [][ (/\ last'.op = "end_call"
         /\ ~ \E r \in call_routing : r.id = last'.route_id)
        => /\ call_routing' = call_routing
           /\ phone_numbers' = phone_numbers
           /\ phone_stats' = phone_stats
           /\ users' = users
           /\ communications' = communications
           /\ ~ last'.raised ]_vars

\* end_call ran with an unknown id on a store that holds another route, a
\* phone with a call in flight and its phone_stats row
C30_Witness ==
    /\ last.op = "end_call"
    /\ ~ last.found
    /\ ~ \E r \in call_routing : r.id = last.route_id
    /\ \E r \in call_routing : r.status = "active"
    /\ \E r \in phone_numbers : r.current_calls >= 1
    /\ phone_stats # {}

====
